---- MODULE Spec2Model ----
(***************************************************************************)
(* A model of the mg-settings configuration parser: the line scanner of    *)
(* src/src/string.rs, the key parser of src/src/key.rs and the command     *)
(* dispatcher Parser of src/src/lib.rs.                                    *)
(*                                                                         *)
(* Text is a sequence of bytes, each byte a one-character string.  A       *)
(* two-byte UTF-8 character is its lead byte followed by the byte Cont.    *)
(* Offsets are 0-based byte offsets as in the Rust code; Slice(s, a, b) is *)
(* &s[a..b].                                                               *)
(***************************************************************************)
EXTENDS Integers, Sequences, FiniteSets, TLC

VARIABLES
    self_line,      \* Parser.line
    self_column,    \* Parser.column
    config,         \* Parser.config
    T,              \* the command type the parser is made for: its variants
    pc,             \* where the caller is: "idle", "parsing", "done", "panicked", ...
    api,            \* the entry point called: "parse" or "parse_line"
    form,           \* how the caller wrote the line it gives to the parser
    src_lines,      \* the lines of the input given to the outermost parse
    stack,          \* the active parse() calls, outermost first
    contrib,        \* what each line of the outermost input merged into the result
    result,         \* the ParseResult returned to the caller
    key,            \* a Key held by the caller of Display
    token,          \* the bracketed token the caller wrote: its prefixes, base and suffix
    text,           \* the word rendered by Display or given to parse_keys
    keys,           \* what parse_keys returned
    calls,          \* the number of calls the parser has come back from before this one
    words_input,    \* the input the caller gives to words
    words_count,    \* the count the caller gives to words
    words_vec       \* what words returned

vars == <<self_line, self_column, config, T, pc, api, form, src_lines, stack, contrib,
          result, key, token, text, keys, calls, words_input, words_count, words_vec>>

parser_vars == <<self_line, self_column, api, form, src_lines, stack, contrib, result>>
key_vars == <<key, token, text, keys>>
setup_vars == <<config, T>>
words_vars == <<words_input, words_count, words_vec>>

(***************************************************************************)
(* Characters.                                                             *)
(***************************************************************************)
Cont == "cont"
EAcute == "U+E9"
Whitespace == {" ", "\t", "\r"}
Digits == {"0", "1", "2", "3", "4", "5", "6", "7", "8", "9"}
Lower == {"a", "b", "c", "d", "e", "f", "g", "h", "i", "j", "k", "l", "m",
          "n", "o", "p", "q", "r", "s", "t", "u", "v", "w", "x", "y", "z"}
Upper == {"A", "B", "C", "D", "E", "F", "G", "H", "I", "J", "K", "L", "M",
          "N", "O", "P", "Q", "R", "S", "T", "U", "V", "W", "X", "Y", "Z"}
AsciiLetters == Lower \cup Upper

is_whitespace(c) == c \in Whitespace
is_digit(c) == c \in Digits
is_alphabetic(c) == c \in AsciiLetters \cup {EAcute}
is_alphanumeric(c) == is_alphabetic(c) \/ is_digit(c)

DigitValue(c) ==
    CASE c = "0" -> 0 [] c = "1" -> 1 [] c = "2" -> 2 [] c = "3" -> 3
      [] c = "4" -> 4 [] c = "5" -> 5 [] c = "6" -> 6 [] c = "7" -> 7
      [] c = "8" -> 8 [] c = "9" -> 9

(***************************************************************************)
(* Slices and the str methods the parser uses.                             *)
(***************************************************************************)
Slice(s, a, b) == SubSeq(s, a + 1, b)
SliceFrom(s, a) == SubSeq(s, a + 1, Len(s))

\* str::is_char_boundary
is_char_boundary(s, i) ==
    \/ i = 0
    \/ i = Len(s)
    \/ (i > 0 /\ i < Len(s) /\ s[i + 1] # Cont)

\* str::chars: one element per character (its lead byte)
chars(s) == SelectSeq(s, LAMBDA b : b # Cont)

\* Iterator::all over chars
all_chars(s, P(_)) == \A i \in 1..Len(s) : s[i] = Cont \/ P(s[i])

RECURSIVE trim_start(_)
trim_start(s) ==
    IF s # <<>> /\ is_whitespace(Head(s)) THEN trim_start(Tail(s)) ELSE s

RECURSIVE trim_end(_)
trim_end(s) ==
    IF s # <<>> /\ is_whitespace(s[Len(s)])
    THEN trim_end(SubSeq(s, 1, Len(s) - 1))
    ELSE s

\* str::trim
trim(s) == trim_end(trim_start(s))

\* chars().take_while(|c| c != stop).collect()
RECURSIVE take_while_not(_, _)
take_while_not(s, stop) ==
    IF s = <<>> \/ Head(s) = stop
    THEN <<>>
    ELSE <<Head(s)>> \o take_while_not(Tail(s), stop)

\* the first whitespace-delimited piece of s, s not starting with whitespace
RECURSIVE take_word(_)
take_word(s) ==
    IF s = <<>> \/ is_whitespace(Head(s))
    THEN <<>>
    ELSE <<Head(s)>> \o take_word(Tail(s))

contains(s, c) == \E i \in 1..Len(s) : s[i] = c

starts_with(s, c) == s # <<>> /\ Head(s) = c

(***************************************************************************)
(* src/src/string.rs                                                       *)
(***************************************************************************)
None == [tag |-> "None"]
Panic == [tag |-> "Panic"]

\* StrExt::rsplit_at; split_at panics off a character boundary
rsplit_at(s, index) ==
    IF Len(s) > index
    THEN IF is_char_boundary(s, Len(s) - index)
         THEN [tag |-> "Ok",
               start |-> Slice(s, 0, Len(s) - index),
               end |-> SliceFrom(s, Len(s) - index)]
         ELSE Panic
    ELSE [tag |-> "Ok", start |-> <<>>, end |-> <<>>]

\* maybe_word: split_whitespace().next(), with the offset of the word in input
maybe_word(input) ==
    LET first(rest) ==
            IF rest = <<>>
            THEN None
            ELSE [tag |-> "Some", index |-> Len(input) - Len(rest),
                  word |-> take_word(rest)]
    IN  first(trim_start(input))

\* word: maybe_word(...).unwrap()
word(input) ==
    LET unwrap(w) == IF w.tag = "None" THEN Panic ELSE w
    IN  unwrap(maybe_word(input))

\* the loop of words: i is the character count, start_index is used as a byte offset
RECURSIVE words_loop(_, _, _, _, _)
words_loop(input, cs, i, start_index, vec) ==
    IF i >= Len(cs)
    THEN [tag |-> "Ok", start_index |-> start_index, vec |-> vec]
    ELSE IF is_whitespace(cs[i + 1])
         THEN IF start_index <= i /\ i <= Len(input)
                 /\ is_char_boundary(input, start_index) /\ is_char_boundary(input, i)
              THEN words_loop(input, cs, i + 1, i + 1,
                              IF start_index < i
                              THEN Append(vec, [index |-> start_index,
                                                word |-> Slice(input, start_index, i)])
                              ELSE vec)
              ELSE Panic
         ELSE words_loop(input, cs, i + 1, start_index, vec)

\* words(input, count)
words(input, count) ==
    LET len == Len(input)
        truncate(vec) ==
            IF Len(vec) >= count
            THEN [tag |-> "Some", vec |-> SubSeq(vec, 1, count)]
            ELSE None
        last(looped) ==
            IF looped.tag = "Panic"
            THEN Panic
            ELSE IF looped.start_index < len
            THEN IF is_char_boundary(input, looped.start_index)
                 THEN truncate(Append(looped.vec,
                                      [index |-> looped.start_index,
                                       word |-> Slice(input, looped.start_index, len)]))
                 ELSE Panic
            ELSE truncate(looped.vec)
    IN  last(words_loop(input, chars(input), 0, 0, <<>>))

(***************************************************************************)
(* Errors (src/src/errors/mod.rs) and positions (src/src/position.rs).     *)
(***************************************************************************)
EndOfLine == <<"<end of line>">>

\* ParseError::new(typ, unexpected, expected, Pos::new(line, column))
ParseError(typ, unexpected, expected, ln, col) ==
    [typ |-> typ, unexpected |-> unexpected, expected |-> expected,
     line |-> ln, column |-> col]

\* io::Error into Error: Msg(...)
MsgError(path) ==
    [typ |-> "Msg", unexpected |-> path, expected |-> "file", line |-> 0, column |-> 0]

Ok(v) == [tag |-> "Ok", val |-> v]
Err(e) == [tag |-> "Err", err |-> e]

\* a check that takes every word for an identifier
check_ident_any(string, ln, col) == Ok(string)

\* check_ident
check_ident(string, ln, col) ==
    IF /\ all_chars(string, LAMBDA c : is_alphanumeric(c) \/ c = "-" \/ c = "_")
       /\ string # <<>>
       /\ is_alphabetic(Head(string))
    THEN Ok(string)
    ELSE Err(ParseError("Parse", string, "identifier", ln, col))

(***************************************************************************)
(* Values (src/src/lib.rs, enum Value) and the number parsers of the       *)
(* standard library that Parser::value unwraps.                            *)
(***************************************************************************)
ValueBool(b) == [t |-> "Bool", v |-> IF b THEN <<"true">> ELSE <<"false">>]
ValueInt(digits) == [t |-> "Int", v |-> digits]
ValueFloat(digits) == [t |-> "Float", v |-> digits]
ValueStr(s) == [t |-> "Str", v |-> s]

I64Max == <<"9", "2", "2", "3", "3", "7", "2", "0", "3", "6",
            "8", "5", "4", "7", "7", "5", "8", "0", "7">>

RECURSIVE strip_leading_zeros(_)
strip_leading_zeros(d) ==
    IF Len(d) > 1 /\ Head(d) = "0" THEN strip_leading_zeros(Tail(d)) ELSE d

RECURSIVE strip_trailing_zeros(_)
strip_trailing_zeros(d) ==
    IF d # <<>> /\ d[Len(d)] = "0"
    THEN strip_trailing_zeros(SubSeq(d, 1, Len(d) - 1))
    ELSE d

\* a <= b for two digit strings of the same length
RECURSIVE digits_le(_, _)
digits_le(a, b) ==
    IF a = <<>>
    THEN TRUE
    ELSE IF DigitValue(Head(a)) # DigitValue(Head(b))
         THEN DigitValue(Head(a)) < DigitValue(Head(b))
         ELSE digits_le(Tail(a), Tail(b))

\* str::parse::<i64> of a non-empty all-digit string: the number (its digits
\* without leading zeros), or an error when it exceeds i64::MAX
parse_i64(string) ==
    LET checked(n) ==
            IF Len(n) < Len(I64Max) \/ (Len(n) = Len(I64Max) /\ digits_le(n, I64Max))
            THEN Ok(n)
            ELSE Err("ParseIntError")
    IN  checked(strip_leading_zeros(string))

\* str::parse::<f64> of a string of digits and dots: Digit+ '.' Digit* or
\* Digit* '.' Digit+; the number is kept as its normalised decimal text
parse_f64(string) ==
    LET number(dots, int_part) ==
            IF dots = 1 /\ Len(string) > 1
            THEN Ok(strip_leading_zeros(IF int_part = <<>> THEN <<"0">> ELSE int_part)
                    \o <<".">>
                    \o strip_trailing_zeros(SubSeq(string, Len(int_part) + 2, Len(string))))
            ELSE IF dots = 0 /\ string # <<>>
                 THEN Ok(strip_leading_zeros(string) \o <<".">>)
                 ELSE Err("ParseFloatError")
    IN  number(Len(SelectSeq(string, LAMBDA c : c = ".")), take_while_not(string, "."))

True == <<"t", "r", "u", "e">>
False == <<"f", "a", "l", "s", "e">>

(***************************************************************************)
(* Parser (src/src/lib.rs).  ln and col are self.line and self.column on   *)
(* entry; a function that assigns self.column returns the new value.       *)
(***************************************************************************)
\* Parser::value
value(input, ln, col) ==
    LET unwrap_int(n) == IF n.tag = "Ok" THEN Ok(ValueInt(n.val)) ELSE Panic
        unwrap_float(f) == IF f.tag = "Ok" THEN Ok(ValueFloat(f.val)) ELSE Panic
        match(string) ==
            IF string = <<>>
            THEN Err(ParseError("Parse", EndOfLine, "value", ln, col + Len(string)))
            ELSE IF string = True THEN Ok(ValueBool(TRUE))
            ELSE IF string = False THEN Ok(ValueBool(FALSE))
            ELSE IF all_chars(string, LAMBDA c : is_digit(c))
            THEN unwrap_int(parse_i64(string))
            ELSE IF all_chars(string, LAMBDA c : is_digit(c) \/ c = ".")
            THEN unwrap_float(parse_f64(string))
            ELSE Ok(ValueStr(trim(input)))
    IN  match(trim(take_while_not(input, "#")))

\* Command::Set
Set(identifier, v) == [kind |-> "Set", name |-> identifier, value |-> v]

\* Parser::set_command
set_command(line, ln, col) ==
    LET assign(identifier, val, column) ==
            IF val.tag = "Panic"
            THEN Panic
            ELSE IF val.tag = "Err"
            THEN [tag |-> "Err", column |-> column, err |-> val.err]
            ELSE [tag |-> "Ok", column |-> column, val |-> Set(identifier, val.val)]
        checked(ident, operator, operator_index) ==
            IF ident.tag = "Err"
            THEN [tag |-> "Err", column |-> col, err |-> ident.err]
            ELSE IF operator = <<"=">>
            THEN assign(ident.val,
                        value(SliceFrom(line, operator_index + 1), ln,
                              col + operator_index + 1),
                        col + operator_index + 1)
            ELSE [tag |-> "Err", column |-> col,
                  err |-> ParseError("Parse", operator, "=", ln, col + operator_index)]
        split(ws) ==
            IF ws.tag = "Panic"
            THEN Panic
            ELSE IF ws.tag = "None"
            THEN [tag |-> "Err", column |-> col,
                  err |-> ParseError("Parse", EndOfLine, "=", ln, col + Len(line))]
            ELSE checked(check_ident(ws.vec[1].word, ln, col + ws.vec[1].index),
                         ws.vec[2].word, ws.vec[2].index)
    IN  split(words(line, 2))

(***************************************************************************)
(* Keys (src/src/key.rs).  A Key is the sequence of its variant names from *)
(* the outermost inwards: Control(Shift(Tab)) is <<"Control", "Shift",     *)
(* "Tab">> and Char('a') is <<"Char", "a">>.                               *)
(***************************************************************************)
Char(c) == <<"Char", c>>
Alt(k) == <<"Alt">> \o k
Control(k) == <<"Control">> \o k
Shift(k) == <<"Shift">> \o k

\* the special keys: the name matched by special_key, the Key and the size it returns
SpecialKeys ==
    {[name |-> <<"B", "a", "c", "k", "s", "p", "a", "c", "e">>, key |-> "Backspace", size |-> 11],
     [name |-> <<"D", "o", "w", "n">>, key |-> "Down", size |-> 6],
     [name |-> <<"E", "n", "t", "e", "r">>, key |-> "Enter", size |-> 7],
     [name |-> <<"E", "s", "c">>, key |-> "Escape", size |-> 5],
     [name |-> <<"F", "1">>, key |-> "F1", size |-> 4],
     [name |-> <<"F", "2">>, key |-> "F2", size |-> 4],
     [name |-> <<"F", "3">>, key |-> "F3", size |-> 4],
     [name |-> <<"F", "4">>, key |-> "F4", size |-> 4],
     [name |-> <<"F", "5">>, key |-> "F5", size |-> 4],
     [name |-> <<"F", "6">>, key |-> "F6", size |-> 4],
     [name |-> <<"F", "7">>, key |-> "F7", size |-> 4],
     [name |-> <<"F", "8">>, key |-> "F8", size |-> 4],
     [name |-> <<"F", "9">>, key |-> "F9", size |-> 4],
     [name |-> <<"F", "1", "0">>, key |-> "F10", size |-> 5],
     [name |-> <<"F", "1", "1">>, key |-> "F11", size |-> 5],
     [name |-> <<"F", "1", "2">>, key |-> "F12", size |-> 5],
     [name |-> <<"L", "e", "f", "t">>, key |-> "Left", size |-> 6],
     [name |-> <<"R", "i", "g", "h", "t">>, key |-> "Right", size |-> 7],
     [name |-> <<"S", "p", "a", "c", "e">>, key |-> "Space", size |-> 7],
     [name |-> <<"T", "a", "b">>, key |-> "Tab", size |-> 5],
     [name |-> <<"U", "p">>, key |-> "Up", size |-> 4]}

SpecialKeyNames == {sk.key : sk \in SpecialKeys}

\* char::to_string: the UTF-8 bytes of a character
char_bytes(c) == IF c = EAcute THEN <<c, Cont>> ELSE <<c>>

\* key_to_string
RECURSIVE key_to_string(_)
key_to_string(k) ==
    CASE Head(k) = "Alt" -> <<"A", "-">> \o key_to_string(Tail(k))
      [] Head(k) = "Control" -> <<"C", "-">> \o key_to_string(Tail(k))
      [] Head(k) = "Shift" -> <<"S", "-">> \o key_to_string(Tail(k))
      [] Head(k) = "Char" -> char_bytes(k[2])
      [] OTHER -> (CHOOSE sk \in SpecialKeys : sk.key = Head(k)).name

\* impl Display for Key
Display(k) ==
    IF Head(k) = "Char"
    THEN key_to_string(k)
    ELSE <<"<">> \o key_to_string(k) \o <<">">>

\* ConstructorKeys::new
NoConstructorKeys == [alt |-> FALSE, control |-> FALSE, shift |-> FALSE]

\* key_constructor
key_constructor(k, constructor_keys) ==
    IF constructor_keys.control
    THEN IF constructor_keys.shift
         THEN IF constructor_keys.alt
              THEN Control(Alt(Shift(k)))
              ELSE Control(Shift(k))
         ELSE IF constructor_keys.alt
              THEN Control(Alt(k))
              ELSE Control(k)
    ELSE IF constructor_keys.shift
         THEN Shift(k)
         ELSE IF constructor_keys.alt
              THEN Alt(k)
              ELSE k

\* special_key
special_key(k, ln, col, in_special_key) ==
    LET expected == IF in_special_key THEN "A-Z or special key" ELSE "special key"
        found(matching) ==
            IF matching # {}
            THEN Ok([key |-> <<(CHOOSE sk \in matching : TRUE).key>>,
                     size |-> (CHOOSE sk \in matching : TRUE).size])
            ELSE Err(ParseError("Parse", k, expected, ln, col + 1))
    IN  found({sk \in SpecialKeys : sk.name = k})

\* end.len() >= 2 && (&end[..2] == "A-" || &end[..2] == "C-" || &end[..2] == "S-")
has_modifier(end) ==
    Len(end) >= 2 /\ end[1] \in {"A", "C", "S"} /\ end[2] = "-"

\* a loop that keeps only the modifier of the last prefix
RECURSIVE strip_modifiers_last(_, _, _)
strip_modifiers_last(end, constructor_keys, delta) ==
    IF has_modifier(end)
    THEN strip_modifiers_last(
             SliceFrom(end, 2),
             CASE end[1] = "A" -> [NoConstructorKeys EXCEPT !.alt = TRUE]
               [] end[1] = "C" -> [NoConstructorKeys EXCEPT !.control = TRUE]
               [] end[1] = "S" -> [NoConstructorKeys EXCEPT !.shift = TRUE],
             delta + 2)
    ELSE [end |-> end, constructor_keys |-> constructor_keys, delta |-> delta]

\* the while loop of parse_key that strips the modifier prefixes
RECURSIVE strip_modifiers(_, _, _)
strip_modifiers(end, constructor_keys, delta) ==
    IF has_modifier(end)
    THEN strip_modifiers(
             SliceFrom(end, 2),
             CASE end[1] = "A" -> [constructor_keys EXCEPT !.alt = TRUE]
               [] end[1] = "C" -> [constructor_keys EXCEPT !.control = TRUE]
               [] end[1] = "S" -> [constructor_keys EXCEPT !.shift = TRUE],
             delta + 2)
    ELSE [end |-> end, constructor_keys |-> constructor_keys, delta |-> delta]

\* the characters parse_key accepts as a bare key besides the ASCII letters
KeyCharacters ==
    {"=", "+", "-", ";", "!", "\"", "#", "%", "&", "(", ")", "*", ",", ".", "/",
     "<", ">", "?", "@", "[", "\\", "]", "^", "_", "{", "|", "}", "~", EAcute, "$"}

\* the size parse_key returns for a modified literal character
ModifiedCharSize == 5

\* parse_key
parse_key(input, ln, col) ==
    LET modified(end, delta, constructor_keys, result_special_key) ==
            IF end = <<>>
            THEN Panic
            ELSE IF result_special_key.tag = "Ok"
            THEN Ok([key |-> key_constructor(result_special_key.val.key, constructor_keys),
                     size |-> result_special_key.val.size + delta])
            ELSE IF Head(end) \in AsciiLetters
            THEN IF Len(end) = 1
                 THEN Ok([key |-> key_constructor(Char(Head(end)), constructor_keys),
                          size |-> ModifiedCharSize])
                 ELSE Err(ParseError("Parse", end, "one character", ln, col + 3))
            ELSE result_special_key
        with_modifiers(stripped) ==
            modified(stripped.end, stripped.delta, stripped.constructor_keys,
                     special_key(stripped.end, ln, col + stripped.delta, TRUE))
        bracketed(k) ==
            IF ~contains(input, ">")
            THEN Err(ParseError("Parse", <<"(none)">>, ">", ln, col + Len(input)))
            ELSE IF has_modifier(k)
            THEN with_modifiers(strip_modifiers(k, NoConstructorKeys, 0))
            ELSE special_key(k, ln, col, FALSE)
        bare(character) ==
            IF character \in AsciiLetters \/ character \in KeyCharacters
            THEN Ok([key |-> Char(character), size |-> 1])
            ELSE Err(ParseError("Parse", char_bytes(character), "key", ln, col))
    IN  IF input = <<>>
        THEN Panic
        ELSE IF Head(input) = "<"
        THEN bracketed(take_while_not(Tail(input), ">"))
        ELSE bare(Head(input))

\* parse_keys: the loop, keys so far and index
RECURSIVE parse_keys_loop(_, _, _, _, _)
parse_keys_loop(input, ln, col, ks, index) ==
    LET next(r) ==
            IF r.tag # "Ok"
            THEN r
            ELSE IF r.val.size > Len(input) \/ ~is_char_boundary(input, r.val.size)
            THEN Panic
            ELSE parse_keys_loop(SliceFrom(input, r.val.size), ln, col,
                                 Append(ks, r.val.key), index + r.val.size)
    IN  IF input = <<>>
        THEN Ok(ks)
        ELSE next(parse_key(input, ln, col + index))

\* parse_keys
parse_keys(input, ln, col) == parse_keys_loop(input, ln, col, <<>>, 0)

(***************************************************************************)
(* The configuration and the custom command type the parser is used with   *)
(* (src/tests/lib.rs).                                                     *)
(***************************************************************************)
\* self.config.mapping_modes
mapping_modes == config.mapping_modes

\* self.config.application_commands
application_commands == config.application_commands

Open == <<"o", "p", "e", "n">>
Quit == <<"q", "u", "i", "t">>
WinOpen == <<"w", "i", "n", "-", "o", "p", "e", "n">>

\* a variant of a command type: its dash name and whether it holds an argument
Variant(name, argument) == [name |-> name, has_argument |-> argument]

\* the command type of the tests
CustomCommand == {Variant(Open, TRUE), Variant(Quit, FALSE), Variant(WinOpen, TRUE)}

\* the configuration of parse_with_config in the tests
TestConfig ==
    [application_commands |->
        {<<"c", "o", "m", "p", "l", "e", "t", "e", "-", "n", "e", "x", "t">>},
     mapping_modes |-> {<<"n">>, <<"i">>, <<"c">>}]

\* <T as EnumFromStr>::has_argument, as derived
has_argument(variant) ==
    IF \E v \in T : v.name = variant
    THEN Ok((CHOOSE v \in T : v.name = variant).has_argument)
    ELSE Err("unknown command")

\* <T as EnumFromStr>::create, as derived: a variant without argument drops it
create(variant, argument) ==
    IF \E v \in T : v.name = variant
    THEN Ok([variant |-> variant,
             argument |-> IF (CHOOSE v \in T : v.name = variant).has_argument
                          THEN argument
                          ELSE <<>>])
    ELSE Err("unknown command")

(***************************************************************************)
(* Commands and the command grammars of Parser.                            *)
(***************************************************************************)
App(name) == [kind |-> "App", name |-> name]
Custom(command) == [kind |-> "Custom", command |-> command]
Map(action, ks, mode) == [kind |-> "Map", action |-> action, keys |-> ks, mode |-> mode]
Unmap(ks, mode) == [kind |-> "Unmap", keys |-> ks, mode |-> mode]

\* Parser::missing_args
missing_args(ln, column) ==
    ParseError("MissingArgument", EndOfLine, "command arguments", ln, column)

\* a check that lets every rest of a line pass
check_eol_never(line, index, ln, col) == Ok(<<>>)

\* Parser::check_eol
check_eol(line, index, ln, col) ==
    LET found(rest, w) ==
            IF w.tag = "Some"
            THEN Err(ParseError("Parse", rest, "<end of line>", ln, col + w.index))
            ELSE Ok(<<>>)
    IN  IF Len(line) > index
        THEN found(SliceFrom(line, index), maybe_word(SliceFrom(line, index)))
        ELSE Ok(<<>>)

\* Parser::get_rest
get_rest(line, column, ln) ==
    IF Len(line) > column
    THEN Ok(SliceFrom(line, column))
    ELSE Err(missing_args(ln, column))

\* Parser::custom_command
custom_command(line, wd, start_index, index, ln) ==
    LET lookup(command) ==
            IF command.tag = "Ok"
            THEN Ok(Custom(command.val))
            ELSE IF wd \in application_commands
            THEN Ok(App(wd))
            ELSE Err(ParseError("UnknownCommand", wd, "command or comment", ln, index + 1))
    IN  IF Len(line) > start_index
        THEN lookup(create(wd, trim(SliceFrom(line, start_index))))
        ELSE IF has_argument(wd) = Ok(TRUE)
        THEN Err(missing_args(ln, start_index))
        ELSE lookup(create(wd, <<>>))

\* Parser::map_command
map_command(line, mode, ln, col) ==
    LET mapping(rest, ks) ==
            IF ks.tag = "Ok" THEN Ok(Map(rest, ks.val, mode)) ELSE ks
        action(w, rest) ==
            IF rest # <<>>
            THEN mapping(rest, parse_keys(w.word, ln, col + w.index))
            ELSE Err(ParseError("Parse", EndOfLine, "mapping action", ln, col + Len(line)))
        chord(w) ==
            IF w.tag = "Panic"
            THEN Panic
            ELSE action(w, trim(SliceFrom(line, w.index + Len(w.word))))
    IN  chord(word(line))

\* Parser::unmap_command
unmap_command(line, mode, ln, col) ==
    LET unmapping(ks, column) ==
            IF ks.tag = "Panic"
            THEN Panic
            ELSE IF ks.tag = "Err"
            THEN [tag |-> "Err", err |-> ks.err, column |-> column]
            ELSE [tag |-> "Ok", val |-> Unmap(ks.val, mode), column |-> column]
        checked(w, eol, column) ==
            IF eol.tag = "Err"
            THEN [tag |-> "Err", err |-> eol.err, column |-> column]
            ELSE unmapping(parse_keys(w.word, ln, column + w.index), column)
        chord(w, after_index) ==
            checked(w, check_eol(line, after_index, ln, col + after_index),
                    col + after_index)
        first(w) ==
            IF w.tag = "Panic"
            THEN Panic
            ELSE chord(w, w.index + Len(w.word) + 1)
    IN  first(word(line))

\* Parser::include_command up to file::open: the errors pushed so far and the
\* word joined to include_path
include_command(line, ln, col) ==
    LET checked(w, eol, column) ==
            [tag |-> "Include",
             errors |-> IF eol.tag = "Err" THEN <<eol.err>> ELSE <<>>,
             path |-> w.word,
             column |-> column]
        path(w, after_index) ==
            checked(w, check_eol(line, after_index, ln, col + after_index),
                    col + after_index)
        first(w) ==
            IF w.tag = "Panic"
            THEN Panic
            ELSE path(w, w.index + Len(w.word) + 1)
    IN  first(word(line))

\* ParseResult::new, ParseResult::new_with_command and a result holding one error
\* (rtry!), with the value left in self.column
LineDone(commands, errors, column) ==
    [tag |-> "Done", commands |-> commands, errors |-> errors, column |-> column]

\* the command of Parser::line turned into its ParseResult (rtry!(result, command));
\* set_command and unmap_command return the new self.column with the command
CommandResult(command, column) ==
    IF command.tag = "Panic" THEN Panic
    ELSE IF command.tag = "Ok" THEN LineDone(<<command.val>>, <<>>, column)
    ELSE LineDone(<<>>, <<command.err>>, column)

CommandResultColumn(command) ==
    IF command.tag = "Panic" THEN Panic
    ELSE IF command.tag = "Ok" THEN LineDone(<<command.val>>, <<>>, command.column)
    ELSE LineDone(<<>>, <<command.err>>, command.column)

Include == <<"i", "n", "c", "l", "u", "d", "e">>
SetWord == <<"s", "e", "t">>
MapWord == <<"m", "a", "p">>
UnmapWord == <<"u", "n", "m", "a", "p">>

\* a test that takes only a lone "#" for a comment
is_comment_alone(wd) == wd = <<"#">>

\* word.starts_with('#') in Parser::line
is_comment(wd) == starts_with(wd, "#")

\* Parser::line, up to the nested parse of an include command
line(input, ln, col) ==
    LET dispatch(index, wd, start_index, column, split3, split5, rest) ==
            IF split3.tag = "Panic" \/ split5.tag = "Panic"
            THEN Panic
            ELSE IF is_comment(wd)
            THEN LineDone(<<>>, <<>>, column)
            ELSE IF wd = Include
            THEN IF rest.tag = "Err"
                 THEN LineDone(<<>>, <<rest.err>>, column)
                 ELSE include_command(rest.val, ln, column)
            ELSE IF wd = SetWord
            THEN IF rest.tag = "Err"
                 THEN LineDone(<<>>, <<rest.err>>, column)
                 ELSE CommandResultColumn(set_command(rest.val, ln, column))
            ELSE IF split3.end = MapWord /\ split3.start \in mapping_modes
            THEN IF rest.tag = "Err"
                 THEN LineDone(<<>>, <<rest.err>>, column)
                 ELSE CommandResult(map_command(rest.val, split3.start, ln, column), column)
            ELSE IF split5.end = UnmapWord /\ split5.start \in mapping_modes
            THEN IF rest.tag = "Err"
                 THEN LineDone(<<>>, <<rest.err>>, column)
                 ELSE CommandResultColumn(unmap_command(rest.val, split5.start, ln, column))
            ELSE CommandResult(custom_command(input, wd, start_index, index, ln), column)
        first(w, start_index) ==
            dispatch(w.index, w.word, start_index, start_index + 1,
                     rsplit_at(w.word, 3), rsplit_at(w.word, 5),
                     get_rest(input, start_index, ln))
        scan(w) ==
            IF w.tag = "None"
            THEN LineDone(<<>>, <<>>, col)
            ELSE first(w, w.index + Len(w.word) + 1)
    IN  scan(maybe_word(input))

(***************************************************************************)
(* The input stream and the included files.                                *)
(***************************************************************************)
LF == <<"\n">>
CRLF == <<"\r", "\n">>
Sp == <<" ">>

\* BufRead::lines: the text up to each "\n", without it and without a "\r" before it
RECURSIVE lines(_)
lines(input) ==
    IF input = <<>>
    THEN <<>>
    ELSE LET split(l) ==
                 <<IF Len(l) < Len(input) /\ l # <<>> /\ l[Len(l)] = "\r"
                   THEN SubSeq(l, 1, Len(l) - 1)
                   ELSE l>>
                 \o lines(SubSeq(input, Len(l) + 2, Len(input)))
         IN  split(take_while_not(input, "\n"))

RECURSIVE Join(_, _)
Join(ls, sep) ==
    IF ls = <<>> THEN <<>>
    ELSE IF Len(ls) = 1 THEN Head(ls)
    ELSE Head(ls) \o sep \o Join(Tail(ls), sep)

SetO5 == SetWord \o Sp \o <<"o">> \o Sp \o <<"=">> \o Sp \o <<"5">>
Set55 == SetWord \o Sp \o <<"5">> \o Sp \o <<"5">>

\* the files under include_path: f holds one set command, g a failing line, an
\* include of f and a custom command; c includes itself, d and e include each
\* other; any other path does not exist
Files ==
    [f |-> SetO5 \o LF,
     g |-> Set55 \o LF \o Include \o Sp \o <<"f">> \o LF \o Quit \o LF,
     c |-> Include \o Sp \o <<"c">> \o LF,
     d |-> SetO5 \o LF \o Include \o Sp \o <<"e">> \o LF,
     e |-> Include \o Sp \o <<"d">> \o LF \o SetO5 \o LF]

\* an open that fails for every path
file_open_none(path) == Err(MsgError(path))

\* file::open(&path): the content of the file, or the io error
file_open(path) ==
    IF path = <<"f">> THEN Ok(Files.f)
    ELSE IF path = <<"g">> THEN Ok(Files.g)
    ELSE IF path = <<"c">> THEN Ok(Files.c)
    ELSE IF path = <<"d">> THEN Ok(Files.d)
    ELSE IF path = <<"e">> THEN Ok(Files.e)
    ELSE Err(MsgError(path))

(***************************************************************************)
(* The parser as a state machine: one step per line of Parser::parse.      *)
(***************************************************************************)
\* the locals of one parse() call: the lines not yet read, the enumerate() index,
\* result, and the result of the include_command waiting for a nested parse
Frame(ls) ==
    [lines |-> ls, line_num |-> 0, commands |-> <<>>, errors |-> <<>>,
     pending |-> <<>>]

Top == stack[Len(stack)]

\* a merge that puts the other result first
merge_first(frame, commands, errors) ==
    [frame EXCEPT !.commands = commands \o frame.commands,
                  !.errors = errors \o frame.errors]

\* a merge that keeps the commands in order and puts the other errors first
merge_errors_first(frame, commands, errors) ==
    [frame EXCEPT !.commands = frame.commands \o commands,
                  !.errors = errors \o frame.errors]

\* ParseResult::merge
merge(frame, commands, errors) ==
    [frame EXCEPT !.commands = frame.commands \o commands,
                  !.errors = frame.errors \o errors]

\* a loop that moves to the next line and does not count it
advance_uncounted(frame) == [frame EXCEPT !.lines = Tail(frame.lines)]

\* the for loop of Parser::parse moves to the next line
advance(frame) ==
    [frame EXCEPT !.lines = Tail(frame.lines), !.line_num = frame.line_num + 1]

ReplaceTop(frame) == [stack EXCEPT ![Len(stack)] = frame]

\* what one line of the outermost input merged into the result
Contribution(commands, errors) == [commands |-> commands, errors |-> errors]

\* self.line(&input_line, prefix) for the next line of the innermost parse()
Outcome == line(Head(Top.lines), Top.line_num + 1, self_column)

\* a line written as lead, a keyword, and the words after it separated by gap
NoForm ==
    [kind |-> "none", lead |-> <<>>, gap |-> <<>>, ident |-> <<>>, operator |-> <<>>,
     value |-> <<>>, suffix |-> <<>>]

Init ==
    /\ self_line = 1
    /\ self_column = 1
    /\ config = TestConfig
    /\ T = CustomCommand
    /\ pc = "idle"
    /\ api = "none"
    /\ form = NoForm
    /\ src_lines = <<>>
    /\ stack = <<>>
    /\ contrib = <<>>
    /\ result = [commands |-> <<>>, errors |-> <<>>]
    /\ calls = 0
    /\ words_input = <<>>
    /\ words_count = 0
    /\ words_vec = None
    /\ key = <<>>
    /\ token = [mods |-> <<>>, base |-> <<>>, suffix |-> <<>>]
    /\ text = <<>>
    /\ keys = None

\* Parser::parse(input) is called
CallParse(input, written) ==
    /\ pc = "idle"
    /\ pc' = "parsing"
    /\ api' = "parse"
    /\ form' = written
    /\ src_lines' = lines(input)
    /\ stack' = <<Frame(lines(input))>>
    /\ contrib' = <<>>
    /\ UNCHANGED <<self_line, self_column, result, key_vars, setup_vars, calls, words_vars>>

\* Parser::parse_line(line) is called: it calls self.parse(line.as_bytes(), prefix)
CallParseLine(input, written) ==
    /\ pc = "idle"
    /\ pc' = "parsing"
    /\ api' = "parse_line"
    /\ form' = written
    /\ src_lines' = lines(input)
    /\ stack' = <<Frame(lines(input))>>
    /\ contrib' = <<>>
    /\ UNCHANGED <<self_line, self_column, result, key_vars, setup_vars, calls, words_vars>>

\* one iteration of the loop of parse for a line that is no include command
StepLine ==
    /\ pc = "parsing"
    /\ Top.lines # <<>>
    /\ \E outcome \in {Outcome} :
          /\ outcome.tag = "Done"
          /\ self_column' = outcome.column
          /\ stack' = ReplaceTop(advance(merge(Top, outcome.commands, outcome.errors)))
          /\ contrib' = IF Len(stack) = 1
                        THEN Append(contrib, Contribution(outcome.commands, outcome.errors))
                        ELSE contrib
    /\ self_line' = Top.line_num + 1
    /\ UNCHANGED <<pc, api, form, src_lines, result, key_vars, setup_vars, calls, words_vars>>

\* one iteration of the loop of parse in which an unwrap or a slice panics
StepPanic ==
    /\ pc = "parsing"
    /\ Top.lines # <<>>
    /\ \E outcome \in {Outcome} : outcome.tag = "Panic"
    /\ self_line' = Top.line_num + 1
    /\ pc' = "panicked"
    /\ stack' = <<>>
    /\ UNCHANGED <<self_column, api, form, src_lines, contrib, result, key_vars, setup_vars, calls, words_vars>>

\* the depth of nested parse() calls the model follows
MaxDepth == 4

\* an include command whose file opens: the nested parse() starts
StepInclude ==
    /\ pc = "parsing"
    /\ Len(stack) < MaxDepth
    /\ Top.lines # <<>>
    /\ \E outcome \in {Outcome} :
          /\ outcome.tag = "Include"
          /\ \E file \in {file_open(outcome.path)} :
                /\ file.tag = "Ok"
                /\ stack' = Append(ReplaceTop([advance(Top) EXCEPT
                                                  !.pending = outcome.errors]),
                                   Frame(lines(file.val)))
          /\ self_column' = outcome.column
    /\ self_line' = Top.line_num + 1
    /\ UNCHANGED <<pc, api, form, src_lines, contrib, result, key_vars, setup_vars, calls, words_vars>>

\* an include command whose file does not open: rtry! pushes the error and returns
StepIncludeMissing ==
    /\ pc = "parsing"
    /\ Top.lines # <<>>
    /\ \E outcome \in {Outcome} :
          /\ outcome.tag = "Include"
          /\ \E file \in {file_open(outcome.path)} :
                /\ file.tag = "Err"
                /\ \E errors \in {outcome.errors \o <<file.err>>} :
                      /\ stack' = ReplaceTop(advance(merge(Top, <<>>, errors)))
                      /\ contrib' = IF Len(stack) = 1
                                    THEN Append(contrib, Contribution(<<>>, errors))
                                    ELSE contrib
          /\ self_column' = outcome.column
    /\ self_line' = Top.line_num + 1
    /\ UNCHANGED <<pc, api, form, src_lines, result, key_vars, setup_vars, calls, words_vars>>

\* a nested parse() returns to include_command, which merges its result into its
\* own and returns it to the loop of the including parse()
Return ==
    /\ pc = "parsing"
    /\ Len(stack) > 1
    /\ Top.lines = <<>>
    /\ LET parent == stack[Len(stack) - 1]
           errors == parent.pending \o Top.errors
       IN  /\ stack' = Append(SubSeq(stack, 1, Len(stack) - 2),
                              [merge(parent, Top.commands, errors) EXCEPT !.pending = <<>>])
           /\ contrib' = IF Len(stack) = 2
                         THEN Append(contrib, Contribution(Top.commands, errors))
                         ELSE contrib
    /\ UNCHANGED <<self_line, self_column, pc, api, form, src_lines, result, key_vars, setup_vars, calls, words_vars>>

\* the NoCommand error of parse_line
NoCommand(ln) ==
    ParseError("NoCommand", <<"comment or <end of line>">>, "command", ln, 1)

\* the outermost parse() returns, and parse_line adds its error to an empty result
Finish ==
    /\ pc = "parsing"
    /\ Len(stack) = 1
    /\ Top.lines = <<>>
    /\ pc' = "done"
    /\ stack' = <<>>
    /\ result' = [commands |-> Top.commands,
                  errors |-> IF api = "parse_line" /\ Top.commands = <<>> /\ Top.errors = <<>>
                             THEN <<NoCommand(self_line)>>
                             ELSE Top.errors]
    /\ UNCHANGED <<self_line, self_column, api, form, src_lines, contrib, key_vars, setup_vars, calls, words_vars>>

\* the number of calls after which the parser is no longer used
MaxCalls == 2

\* the caller, holding the result, is ready to call parse or parse_line of the
\* same parser again: self.line and self.column are as the last call left them
Reuse ==
    /\ pc = "done"
    /\ calls < MaxCalls
    /\ calls' = calls + 1
    /\ pc' = "idle"
    /\ api' = "none"
    /\ form' = NoForm
    /\ src_lines' = <<>>
    /\ contrib' = <<>>
    /\ result' = [commands |-> <<>>, errors |-> <<>>]
    /\ UNCHANGED <<self_line, self_column, stack, key_vars, setup_vars, words_vars>>

(***************************************************************************)
(* Rendering and parsing keys: Display for Key and parse_keys called on a  *)
(* word.                                                                   *)
(***************************************************************************)
\* the caller formats a Key with Display
Render ==
    /\ pc = "key"
    /\ text' = Display(key)
    /\ pc' = "rendered"
    /\ UNCHANGED <<parser_vars, setup_vars, calls, words_vars, key, token, keys>>

\* the caller gives the word to parse_keys
ParseKeys ==
    /\ pc \in {"rendered", "token", "word"}
    /\ keys' = parse_keys(text, 1, 1)
    /\ pc' = CASE pc = "rendered" -> "reparsed"
               [] pc = "token" -> "parsed"
               [] pc = "word" -> "scanned"
    /\ UNCHANGED <<parser_vars, setup_vars, calls, words_vars, key, token, text>>

\* the caller gives its input and its count to words
CallWords ==
    /\ pc = "words"
    /\ words_vec' = words(words_input, words_count)
    /\ pc' = "split"
    /\ UNCHANGED <<parser_vars, key_vars, setup_vars, calls, words_input, words_count>>

(***************************************************************************)
(* The inputs.                                                             *)
(***************************************************************************)
MaxLines == 3
MaxWs == 2
MaxModifiers == 2
MaxPrefixes == 3
MaxChars == 4
MaxCount == 3

RECURSIVE Spaces(_)
Spaces(n) == IF n = 0 THEN <<>> ELSE Sp \o Spaces(n - 1)

Seqs(S, n) == UNION {[1..k -> S] : k \in 0..n}

IncludeLine(path) == Include \o Sp \o path

\* the lines the streams are made of: a set command, a blank line, a set command
\* with a bad identifier, includes of g, of a missing file and of f with a word
\* after the path, and a set command whose value is "."
StreamLines ==
    {SetO5, <<>>, Set55,
     IncludeLine(<<"g">>), IncludeLine(<<"m">>),
     IncludeLine(<<"f">>) \o Sp \o <<"x">>,
     SetWord \o Sp \o <<"o">> \o Sp \o <<"=">> \o Sp \o <<".">>}

Streams ==
    {Join(ls, sep) \o trail :
        ls \in Seqs(StreamLines, MaxLines), sep \in {LF, CRLF}, trail \in {<<>>, LF}}

WsRuns(lo) == {Spaces(k) : k \in lo..MaxWs} \cup {<<"\t">>}

ValidIdents == {<<"o">>, <<"a", "1">>, <<"a", "-", "b", "_">>}
Idents == ValidIdents \cup {<<"5">>}

I64MaxPlusOne == SubSeq(I64Max, 1, Len(I64Max) - 1) \o <<"8">>

ValueTexts ==
    {<<"5">>, <<"0", "0", "7">>, I64Max, I64MaxPlusOne,
     <<"1", ".", "5">>, <<"5", ".">>, <<".", "5">>, <<".">>,
     <<"1", ".", ".", "2">>, <<"1", "2", ".", "3", ".", "4">>,
     True, False, <<"a", "b", "c">>, <<"a", " ", "b">>, <<"t", "r", "u">>,
     <<"5", "x">>, <<>>}

Suffixes == {<<>>, Sp, <<"#">>, <<" ", "#", " ", "n">>}

SetForms ==
    [kind : {"set"}, lead : WsRuns(0), gap : WsRuns(1), ident : Idents,
     operator : {<<"=">>}, value : ValueTexts, suffix : Suffixes]

BlankForms ==
    [kind : {"blank"}, lead : Seqs({" ", "\t"}, MaxWs), gap : {<<>>}, ident : {<<>>},
     operator : {<<>>}, value : {<<>>}, suffix : {<<>>}]

CommentForms ==
    [kind : {"comment"}, lead : WsRuns(0), gap : {<<>>}, ident : {<<>>},
     operator : {<<>>}, value : {<<>>},
     suffix : {<<>>, <<"c">>, Sp \o SetO5, <<"#">>}]

\* set lines with a wrong operator or without operator
BadSetForms ==
    {f \in [kind : {"set"}, lead : WsRuns(0), gap : WsRuns(1),
             ident : {<<"o">>, <<"5">>}, operator : {<<"<">>, <<>>},
             value : {<<>>, <<"5">>}, suffix : {<<>>, Sp}] :
        f.operator = <<>> => f.value = <<>>}

\* lines of the keyword set and whitespace
KeywordForms ==
    [kind : {"keyword"}, lead : WsRuns(0), word : {SetWord}, trail : WsRuns(0)]

LineForms == SetForms \cup BadSetForms \cup KeywordForms \cup BlankForms \cup CommentForms

\* a configuration whose application commands are also keywords, with mapping
\* modes of every length
ClashConfig ==
    [application_commands |->
        TestConfig.application_commands
            \cup {SetWord, Include, <<"n">> \o MapWord, <<"n">> \o UnmapWord},
     mapping_modes |-> {<<"n">>, <<"n", "o">>, <<"n", "u", "n">>, <<>>}]

\* a command type whose variants are also keywords
ClashCommand ==
    CustomCommand
        \cup {Variant(SetWord, FALSE), Variant(Include, TRUE),
              Variant(<<"n">> \o MapWord, TRUE), Variant(<<"n">> \o UnmapWord, FALSE)}

Setups ==
    {[config |-> TestConfig, T |-> CustomCommand],
     [config |-> ClashConfig, T |-> ClashCommand]}

\* the first words: keywords, map and unmap words, commands and unknown words
FirstWords ==
    {SetWord, Include,
     <<"n">> \o MapWord, <<"n">> \o UnmapWord, <<"n", "o">> \o MapWord,
     <<"m">> \o MapWord, MapWord, UnmapWord,
     Quit, Open, <<"c", "o", "m", "p", "l", "e", "t", "e", "-", "n", "e", "x", "t">>,
     <<"s", "t", "e">>, <<EAcute, Cont, "a", "b">>}

\* what follows the first word and the whitespace after it
ArgTexts ==
    {<<>>, <<"a">>, <<"a", " ">>, <<"a", " ", ":", "o">>,
     <<"a", " ", " ", ":", "o", " ", "x", " ">>,
     <<"<", "F", "1", ">">>, <<"<", "F", "1", ">", " ", ":", "o">>,
     <<"<", "C", "-", "@", ">">>, <<"<", "C", "-", "@", ">", " ", ":", "o">>,
     <<"o", " ", "=", " ", "5">>, <<"f">>, <<"m">>,
     <<"f", " ", "x">>, <<"g", " ", " ", "x", " ", "y">>,
     <<"<", "S", "-", "C", "-", "T", "E", ">">>,
     <<"<", "S", "-", "C", "-", "T", "E", ">", " ", ":", "o">>,
     <<"<", "F", "1">>, <<"<", "F", "1", " ", ":", "o">>,
     <<"a", ":">>, <<"a", ":", " ", ":", "o">>}

CommandForms ==
    {f \in [kind : {"command"}, lead : WsRuns(0), word : FirstWords,
             gap : WsRuns(0), args : ArgTexts] :
        f.gap = <<>> => f.args = <<>>}

\* the text of a line written as a form
FormText(f) ==
    CASE f.kind = "set" ->
            f.lead \o SetWord \o f.gap \o f.ident \o f.gap \o f.operator \o f.gap
                \o f.value \o f.suffix
      [] f.kind = "blank" -> f.lead
      [] f.kind = "comment" -> f.lead \o <<"#">> \o f.suffix
      [] f.kind = "command" -> f.lead \o f.word \o f.gap \o f.args
      [] f.kind = "keyword" -> f.lead \o f.word \o f.trail

KeyChars == {"a", "Z", "5", "-", "<", EAcute}
KeyBases == {<<n>> : n \in SpecialKeyNames} \cup {Char(c) : c \in KeyChars}
Keys == {w \o b : w \in Seqs({"Control", "Alt", "Shift"}, MaxModifiers), b \in KeyBases}

Tab == <<"T", "a", "b">>
TokenBases ==
    {Tab, <<"F", "1", "0">>, <<"E", "s", "c">>, <<"a">>, <<"Z">>, <<"@">>, <<>>,
     <<"T", "E">>}
Tokens ==
    [mods : Seqs({"A", "C", "S"}, MaxPrefixes), base : TokenBases,
     suffix : {<<>>, <<"x">>}]

RECURSIVE Prefixes(_)
Prefixes(ms) == IF ms = <<>> THEN <<>> ELSE <<Head(ms), "-">> \o Prefixes(Tail(ms))

TokenText(t) == <<"<">> \o Prefixes(t.mods) \o t.base \o <<">">> \o t.suffix

\* bare characters as their bytes: letters, a digit, characters of the list of
\* parse_key, among them an accented letter of two bytes, and a colon
BareChars ==
    {<<"a">>, <<"Z">>, <<"5">>, <<"-">>, <<"$">>, <<EAcute, Cont>>, <<":">>}

\* the words of one or two bare characters
BareWords == BareChars \cup {c \o d : c, d \in BareChars}

(***************************************************************************)
(* The specifications.                                                     *)
(***************************************************************************)
\* parse on a stream of lines, with included files
Next ==
    \/ \E input \in Streams : CallParse(input, NoForm)
    \/ \E input \in StreamLines : CallParseLine(input, NoForm)
    \/ StepLine
    \/ StepPanic
    \/ StepInclude
    \/ StepIncludeMissing
    \/ Return
    \/ Finish

Spec == Init /\ [][Next]_vars

\* parse and parse_line on one line
NextLine ==
    \/ \E written \in LineForms : CallParse(FormText(written), written)
    \/ \E written \in LineForms : CallParseLine(FormText(written), written)
    \/ StepLine
    \/ StepPanic
    \/ Finish

SpecLine == Init /\ [][NextLine]_vars

\* Display and parse_keys
InitKeys ==
    /\ self_line = 1
    /\ self_column = 1
    /\ config = TestConfig
    /\ T = CustomCommand
    /\ api = "none"
    /\ form = NoForm
    /\ src_lines = <<>>
    /\ stack = <<>>
    /\ contrib = <<>>
    /\ result = [commands |-> <<>>, errors |-> <<>>]
    /\ calls = 0
    /\ words_input = <<>>
    /\ words_count = 0
    /\ words_vec = None
    /\ keys = None
    /\ \/ /\ pc = "key"
          /\ key \in Keys
          /\ token = [mods |-> <<>>, base |-> <<>>, suffix |-> <<>>]
          /\ text = <<>>
       \/ /\ pc = "token"
          /\ key = <<>>
          /\ token \in Tokens
          /\ text = TokenText(token)
       \/ /\ pc = "word"
          /\ key = <<>>
          /\ token = [mods |-> <<>>, base |-> <<>>, suffix |-> <<>>]
          /\ text \in BareWords

NextKeys ==
    \/ Render
    \/ ParseKeys

SpecKeys == InitKeys /\ [][NextKeys]_vars

\* the characters of the inputs of words as their bytes: a letter, two whitespace
\* characters and an accented letter of two bytes
WordsChars == {<<"a">>, Sp, <<"\t">>, <<EAcute, Cont>>}

RECURSIVE Concat(_)
Concat(ss) == IF ss = <<>> THEN <<>> ELSE Head(ss) \o Concat(Tail(ss))

WordsInputs == {Concat(cs) : cs \in Seqs(WordsChars, MaxChars)}

\* words called on an input with a count
InitWords ==
    /\ self_line = 1
    /\ self_column = 1
    /\ config = TestConfig
    /\ T = CustomCommand
    /\ api = "none"
    /\ form = NoForm
    /\ src_lines = <<>>
    /\ stack = <<>>
    /\ contrib = <<>>
    /\ result = [commands |-> <<>>, errors |-> <<>>]
    /\ key = <<>>
    /\ token = [mods |-> <<>>, base |-> <<>>, suffix |-> <<>>]
    /\ text = <<>>
    /\ keys = None
    /\ calls = 0
    /\ pc = "words"
    /\ words_input \in WordsInputs
    /\ words_count \in 0..MaxCount
    /\ words_vec = None

NextWords == CallWords

SpecWords == InitWords /\ [][NextWords]_vars

\* the lines of the streams with include cycles: a set command, the includes of
\* f and of a missing file, and the includes of c, which includes itself, and
\* of d, which includes e, which includes d
CycleLines ==
    {SetO5, IncludeLine(<<"f">>), IncludeLine(<<"m">>), IncludeLine(<<"c">>),
     IncludeLine(<<"d">>)}

CycleStreams == {Join(ls, LF) : ls \in Seqs(CycleLines, MaxLines)}

\* parse on a stream whose includes may form a cycle
NextCycle ==
    \/ \E input \in CycleStreams : CallParse(input, NoForm)
    \/ StepLine
    \/ StepInclude
    \/ StepIncludeMissing
    \/ Return
    \/ Finish

SpecCycle == Init /\ [][NextCycle]_vars

\* the lines given to a parser that is used for several calls: a set command, an
\* empty line and an unmap command
ReuseLines == {SetO5, <<>>, <<"n">> \o UnmapWord \o Sp \o <<"a">>}

ReuseStreams == {Join(ls, LF) : ls \in Seqs(ReuseLines, MaxLines)}

\* parse and parse_line called one after the other on the same parser
NextReuse ==
    \/ \E input \in ReuseStreams : CallParse(input, NoForm)
    \/ \E input \in ReuseLines : CallParseLine(input, NoForm)
    \/ \E written \in BlankForms \cup CommentForms :
          CallParseLine(FormText(written), written)
    \/ StepLine
    \/ Finish
    \/ Reuse

SpecReuse == Init /\ [][NextReuse]_vars

\* parse on one command line, with a configuration and a command type
InitWord ==
    /\ self_line = 1
    /\ self_column = 1
    /\ \E setup \in Setups : config = setup.config /\ T = setup.T
    /\ pc = "idle"
    /\ api = "none"
    /\ form = NoForm
    /\ src_lines = <<>>
    /\ stack = <<>>
    /\ contrib = <<>>
    /\ result = [commands |-> <<>>, errors |-> <<>>]
    /\ calls = 0
    /\ words_input = <<>>
    /\ words_count = 0
    /\ words_vec = None
    /\ key = <<>>
    /\ token = [mods |-> <<>>, base |-> <<>>, suffix |-> <<>>]
    /\ text = <<>>
    /\ keys = None

NextWord ==
    \/ \E written \in CommandForms : CallParse(FormText(written), written)
    \/ StepLine
    \/ StepPanic
    \/ StepInclude
    \/ StepIncludeMissing
    \/ Return
    \/ Finish

SpecWord == InitWord /\ [][NextWord]_vars

(***************************************************************************)
(* Properties of parse and parse_line.                                     *)
(***************************************************************************)
\* the call has come back to the caller, with a result or with a panic
Returned == pc \in {"done", "panicked"}

\* the commands the lines of the input merged into the result, in order
RECURSIVE ContribCommands(_)
ContribCommands(cs) ==
    IF cs = <<>> THEN <<>> ELSE Head(cs).commands \o ContribCommands(Tail(cs))

\* line k of the input fails: the line itself has an error, or panics, or
\* includes a file that does not open
LineFails(k) ==
    LET fails(outcome) ==
            \/ outcome.tag = "Panic"
            \/ outcome.tag = "Done" /\ outcome.errors # <<>>
            \/ /\ outcome.tag = "Include"
               /\ outcome.errors # <<>> \/ file_open(outcome.path).tag = "Err"
    IN  fails(line(src_lines[k], k, 1))

\* C1: parse goes on after a line that fails: when parse comes back it has a
\* result to which every line has contributed, each line that fails has
\* contributed no command and at least one error, and the commands of all the
\* lines are in the result.
C1_FailingLineIsolated ==
    (api = "parse" /\ Returned) =>
        /\ pc = "done"
        /\ Len(contrib) = Len(src_lines)
        /\ \A k \in 1..Len(contrib) :
              LineFails(k) => contrib[k].commands = <<>> /\ contrib[k].errors # <<>>
        /\ result.commands = ContribCommands(contrib)

\* the line given to the parser is "set <identifier> = <value>" with a valid
\* identifier and a value that is not empty
ValidSetLine ==
    /\ form.kind = "set"
    /\ form.ident \in ValidIdents
    /\ form.operator = <<"=">>
    /\ form.value # <<>>

\* C2: parse of a line "set <identifier> = <value>" with a valid identifier and
\* a value that is not empty comes back with exactly one Set command for that
\* identifier and no error.
C2_ValidSetYieldsOneSet ==
    (api = "parse" /\ Returned /\ ValidSetLine) =>
        /\ pc = "done"
        /\ result.errors = <<>>
        /\ Len(result.commands) = 1
        /\ result.commands[1].kind = "Set"
        /\ result.commands[1].name = form.ident

RECURSIVE ParseAll(_, _)
ParseAll(ls, n) ==
    LET ok(commands, errors) ==
            [tag |-> "Ok", commands |-> commands, errors |-> errors]
        nested(outcome, sub) ==
            IF sub.tag = "Panic"
            THEN Panic
            ELSE ok(sub.commands, outcome.errors \o sub.errors)
        included(outcome, file) ==
            IF file.tag = "Err"
            THEN ok(<<>>, outcome.errors \o <<file.err>>)
            ELSE nested(outcome, ParseAll(lines(file.val), 1))
        one(outcome) ==
            CASE outcome.tag = "Panic" -> Panic
              [] outcome.tag = "Done" -> ok(outcome.commands, outcome.errors)
              [] outcome.tag = "Include" -> included(outcome, file_open(outcome.path))
        then(head, rest) ==
            IF head.tag = "Panic" \/ rest.tag = "Panic"
            THEN Panic
            ELSE ok(head.commands \o rest.commands, head.errors \o rest.errors)
    IN  IF ls = <<>>
        THEN ok(<<>>, <<>>)
        ELSE then(one(line(Head(ls), n, 1)), ParseAll(Tail(ls), n + 1))

\* the lines "include f" and "include g", whose files exist
IncludeLines == {IncludeLine(<<"f">>), IncludeLine(<<"g">>)}

\* the file an include line names
IncludedFile(l) == file_open(SliceFrom(l, Len(Include) + 1)).val

\* C7: when line k of the input of parse is "include B", the commands and the
\* errors of the result are those of the lines before k, then those of the whole
\* result of parsing B, then those of the lines after k.
C7_IncludeMerge ==
    (api = "parse" /\ Returned) =>
        \A k \in 1..Len(src_lines) :
            src_lines[k] \in IncludeLines =>
                LET same(before, included, after) ==
                        IF "Panic" \in {before.tag, included.tag, after.tag}
                        THEN pc = "panicked"
                        ELSE /\ pc = "done"
                             /\ result.commands =
                                    before.commands \o included.commands \o after.commands
                             /\ result.errors =
                                    before.errors \o included.errors \o after.errors
                IN  same(ParseAll(SubSeq(src_lines, 1, k - 1), 1),
                         ParseAll(lines(IncludedFile(src_lines[k])), 1),
                         ParseAll(SubSeq(src_lines, k + 1, Len(src_lines)), k + 1))

\* parse has come back from a failing line, an include of g and a set command
C7_Witness ==
    /\ pc = "done"
    /\ api = "parse"
    /\ src_lines = <<Set55, IncludeLine(<<"g">>), SetO5>>
    /\ Len(result.commands) = 3
    /\ Len(result.errors) = 2
    /\ result.errors[1].line = 1
    /\ result.errors[2].line = 1

(***************************************************************************)
(* Properties of the value of a set command.                               *)
(***************************************************************************)
\* the number of dots of a text
Dots(v) == Cardinality({i \in 1..Len(v) : v[i] = "."})

\* the variant the classification gives to a trimmed text
Classify(v) ==
    IF v \in {True, False} THEN "Bool"
    ELSE IF all_chars(v, is_digit) THEN "Int"
    ELSE IF all_chars(v, LAMBDA c : is_digit(c) \/ c = ".") /\ Dots(v) = 1 THEN "Float"
    ELSE "Str"

\* the result is the one Set command of the identifier of the line, with the
\* variant of the text v and, for Str, the text v
SetClassified(v) ==
    /\ result.errors = <<>>
    /\ Len(result.commands) = 1
    /\ result.commands[1].kind = "Set"
    /\ result.commands[1].name = form.ident
    /\ result.commands[1].value.t = Classify(v)
    /\ Classify(v) = "Str" => result.commands[1].value.v = v

\* C8: the value of a set line without a comment is Bool for "true" and "false",
\* else Int when it is only digits, else Float when it is digits and a single dot,
\* else Str with the trimmed text: more than one dot gives Str.
C8_ValueClassification ==
    (Returned /\ ValidSetLine /\ ~contains(form.suffix, "#") /\ ~contains(form.value, "#")) =>
        /\ pc = "done"
        /\ SetClassified(trim(form.value))

\* C9: for every value text that is not empty the call comes back with one
\* command or one error and never panics.
C9_ValueTotal ==
    (Returned /\ ValidSetLine) =>
        /\ pc = "done"
        /\ Len(result.commands) + Len(result.errors) = 1

\* the text after "=" up to the first "#", trimmed
Stripped == trim(take_while_not(form.value \o form.suffix, "#"))

\* C10: the value of a set line is the text after "=" up to the first "#",
\* trimmed, whatever its type: a comment after a Str value is not part of it.
C10_CommentStripped ==
    (pc = "done" /\ ValidSetLine /\ Stripped # <<>>) => SetClassified(Stripped)

(***************************************************************************)
(* Properties of the keys.                                                 *)
(***************************************************************************)
\* the prefixes p are the prefixes q in some order
Reordered(p, q) ==
    /\ Len(p) = Len(q)
    /\ \A m \in {"A", "C", "S"} :
          Cardinality({i \in 1..Len(p) : p[i] = m}) =
          Cardinality({i \in 1..Len(q) : q[i] = m})

\* the Key the token at the start of a word is parsed to, or the failure of the word
TokenKey(parsed) == IF parsed.tag = "Ok" THEN Ok(Head(parsed.val)) ELSE parsed

\* C5: a bracketed token whose modifier prefixes are written in another order is
\* parsed to the same Key, or fails in the same way.
C5_ModifierOrder ==
    pc = "parsed" =>
        \A other \in [1..Len(token.mods) -> {"A", "C", "S"}] :
            Reordered(other, token.mods) =>
                TokenKey(parse_keys(TokenText([token EXCEPT !.mods = other]), 1, 1))
                    = TokenKey(keys)

\* <S-C-Tab> has been parsed to the key <C-S-Tab> is parsed to
C5_Witness ==
    /\ pc = "parsed"
    /\ token = [mods |-> <<"S", "C">>, base |-> Tab, suffix |-> <<>>]
    /\ keys = Ok(<<Control(Shift(<<"Tab">>))>>)
    /\ keys = parse_keys(TokenText([token EXCEPT !.mods = <<"C", "S">>]), 1, 1)

\* the base key wrapped in the modifiers of M: Control outermost, then Alt, then Shift
Nested(M, base) ==
    LET control(k) == IF "C" \in M THEN Control(k) ELSE k
        alt(k) == IF "A" \in M THEN Alt(k) ELSE k
        shift(k) == IF "S" \in M THEN Shift(k) ELSE k
    IN  control(alt(shift(base)))

\* the key a base of a token names
BaseKey(base) ==
    IF Len(base) = 1
    THEN Char(base[1])
    ELSE <<(CHOOSE sk \in SpecialKeys : sk.name = base).key>>

\* the special keys and the letters, wrapped in every combination of modifiers
RoundTripKeys ==
    {Nested(M, b) :
        M \in SUBSET {"A", "C", "S"},
        b \in {<<n>> : n \in SpecialKeyNames} \cup {Char(c) : c \in AsciiLetters}}

\* C4: the word Display writes for a key, a special key or a letter wrapped in a
\* combination of Control, Alt and Shift, is parsed by parse_keys to that one key.
C4_RoundTrip ==
    (pc = "reparsed" /\ key \in RoundTripKeys) => keys = Ok(<<key>>)

\* the modifiers written in the token
Modifiers == {token.mods[i] : i \in 1..Len(token.mods)}

\* the token is a special key or a letter in brackets with modifiers, each written once
ModifiedKey ==
    /\ token.mods # <<>>
    /\ Cardinality(Modifiers) = Len(token.mods)
    /\ \/ \E sk \in SpecialKeys : sk.name = token.base
       \/ Len(token.base) = 1 /\ is_alphabetic(token.base[1])

\* C6: a bracketed token with the modifiers of M is parsed to the base key wrapped
\* in exactly the modifiers of M, Control outermost, then Alt, then Shift.
C6_ModifierNesting ==
    (pc = "parsed" /\ ModifiedKey) =>
        TokenKey(keys) = Ok(Nested(Modifiers, BaseKey(token.base)))

(***************************************************************************)
(* Properties of the dispatch on the first word.                           *)
(***************************************************************************)
\* the word is a registered mode followed by "map"
IsMapWord(w) == \E m \in config.mapping_modes : w = m \o MapWord

\* the word is a registered mode followed by "unmap", and no map word
IsUnmapWord(w) == ~IsMapWord(w) /\ \E m \in config.mapping_modes : w = m \o UnmapWord

\* the first word is a keyword: include, set, <mode>map or <mode>unmap
IsKeyword(w) == w \in {SetWord, Include} \/ IsMapWord(w) \/ IsUnmapWord(w)

\* the command lookup was used for the line: a Custom or App command, or the
\* UnknownCommand error
LookedUp ==
    \/ \E i \in 1..Len(result.commands) : result.commands[i].kind \in {"Custom", "App"}
    \/ \E i \in 1..Len(result.errors) : result.errors[i].typ = "UnknownCommand"

\* C11: a line whose first word is include, set, <mode>map or <mode>unmap with a
\* registered mode is parsed by the grammar of the keyword and the command lookup
\* is not used, also when the word is the name of a custom or application command.
C11_KeywordPriority ==
    (pc = "done" /\ form.kind = "command" /\ IsKeyword(form.word)) => ~LookedUp

\* the mode of a map or unmap word
ModeOf(w, keyword) == SubSeq(w, 1, Len(w) - Len(keyword))

\* the result is of the map grammar with the mode: the Map command, or the error
\* of a missing action when only the chord is given
MapResult(mode) ==
    \/ /\ result.errors = <<>>
       /\ Len(result.commands) = 1
       /\ result.commands[1].kind = "Map"
       /\ result.commands[1].mode = mode
    \/ /\ result.commands = <<>>
       /\ Len(result.errors) = 1
       /\ result.errors[1].expected = "mapping action"

\* the result is of the unmap grammar with the mode: the Unmap command, or the
\* error of a word after the chord
UnmapResult(mode) ==
    \/ /\ result.errors = <<>>
       /\ Len(result.commands) = 1
       /\ result.commands[1].kind = "Unmap"
       /\ result.commands[1].mode = mode
    \/ /\ result.commands = <<>>
       /\ Len(result.errors) = 1
       /\ result.errors[1].expected = "<end of line>"

\* the line is a first word followed by the chord a, with or without an action
ChordLine ==
    /\ form.kind = "command"
    /\ form.word \notin {SetWord, Include}
    /\ form.args \in {<<"a">>, <<"a", " ", ":", "o">>}

\* C12: a first word is parsed as a map command with mode m iff it is m followed
\* by "map" for a registered mode m of any length, otherwise as an unmap command
\* iff it is m followed by "unmap"; any other word goes to the command lookup.
C12_MapUnmapDispatch ==
    (Returned /\ ChordLine) =>
        /\ pc = "done"
        /\ IsMapWord(form.word) => MapResult(ModeOf(form.word, MapWord))
        /\ IsUnmapWord(form.word) => UnmapResult(ModeOf(form.word, UnmapWord))
        /\ ~IsKeyword(form.word) =>
              /\ \A i \in 1..Len(result.commands) :
                    result.commands[i].kind \in {"Custom", "App"}
              /\ \A i \in 1..Len(result.errors) :
                    result.errors[i].typ = "UnknownCommand"

\* the word is a variant of the command type
IsVariant(w) == \E v \in T : v.name = w

\* the line gives no argument to a variant that holds one
NoArgument ==
    /\ \E v \in T : v.name = form.word /\ v.has_argument
    /\ trim(form.gap \o form.args) = <<>>

\* C13: for a first word that is no keyword, the result is the Custom command
\* when the command type accepts the word, else the App command when the word is
\* an application command, else no command and one UnknownCommand error with the
\* word, "command or comment" and the column of the first character of the word.
C13_CommandLookup ==
    (Returned /\ form.kind = "command" /\ ~IsKeyword(form.word) /\ ~NoArgument) =>
        /\ pc = "done"
        /\ IsVariant(form.word) =>
              /\ result.errors = <<>>
              /\ Len(result.commands) = 1
              /\ result.commands[1].kind = "Custom"
              /\ result.commands[1].command.variant = form.word
        /\ (~IsVariant(form.word) /\ form.word \in config.application_commands) =>
              /\ result.errors = <<>>
              /\ result.commands = <<App(form.word)>>
        /\ (~IsVariant(form.word) /\ form.word \notin config.application_commands) =>
              /\ result.commands = <<>>
              /\ result.errors =
                    <<ParseError("UnknownCommand", form.word, "command or comment",
                                 1, Len(form.lead) + 1)>>

(***************************************************************************)
(* Properties of the errors of the command grammars.                       *)
(***************************************************************************)
\* the column of the identifier of a set line, and of its operator
IdentColumn == Len(form.lead) + Len(SetWord) + Len(form.gap) + 1
OperatorColumn == IdentColumn + Len(form.ident) + Len(form.gap)

\* the line is the keyword set followed by nothing but whitespace
BareSetLine == form.kind = "keyword" /\ form.word = SetWord

\* the set line fails: the operator is missing or wrong, or the identifier is
\* invalid, or the value is empty
FailingSetLine ==
    /\ form.kind = "set"
    /\ \/ form.operator # <<"=">>
       \/ form.ident \notin ValidIdents
       \/ Stripped = <<>>

\* the Parse error of a failing set line
SetLineError ==
    IF form.operator = <<>>
    THEN ParseError("Parse", EndOfLine, "=", 1, Len(FormText(form)) + 1)
    ELSE IF form.ident \notin ValidIdents
    THEN ParseError("Parse", form.ident, "identifier", 1, IdentColumn)
    ELSE IF form.operator # <<"=">>
    THEN ParseError("Parse", form.operator, "=", 1, OperatorColumn)
    ELSE ParseError("Parse", EndOfLine, "value", 1, OperatorColumn + 1)

\* the call came back with no command and the one error e
OneError(e) == pc = "done" /\ result.commands = <<>> /\ result.errors = <<e>>

Chord == take_word(form.args)
AfterChord == SliceFrom(form.args, Len(Chord))

\* the line is a map line, or an unmap line, with a chord
MapLine == form.kind = "command" /\ IsMapWord(form.word) /\ form.args # <<>>
UnmapLine == form.kind = "command" /\ IsUnmapWord(form.word) /\ form.args # <<>>

\* the column of the first word after the chord
AfterChordColumn ==
    Len(FormText(form)) - Len(trim_start(AfterChord)) + 1

\* C15: the action of a map line is the text after the chord, trimmed, and an
\* empty action gives no command and one Parse error expecting "mapping action";
\* a word after the chord of an unmap line gives no command and one Parse error
\* expecting "<end of line>" at the column of that word.
C15_MapActionUnmapEol ==
    /\ (Returned /\ MapLine) =>
          /\ pc = "done"
          /\ trim(AfterChord) = <<>> =>
                /\ result.commands = <<>>
                /\ Len(result.errors) = 1
                /\ result.errors[1].typ = "Parse"
                /\ result.errors[1].expected = "mapping action"
          /\ trim(AfterChord) # <<>> =>
                /\ \A i \in 1..Len(result.commands) :
                      /\ result.commands[i].kind = "Map"
                      /\ result.commands[i].action = trim(AfterChord)
                /\ Chord \in {<<"a">>, <<"<", "F", "1", ">">>} =>
                      Len(result.commands) = 1 /\ result.errors = <<>>
    /\ (Returned /\ UnmapLine /\ trim(AfterChord) # <<>>) =>
          /\ pc = "done"
          /\ result.commands = <<>>
          /\ Len(result.errors) = 1
          /\ result.errors[1].typ = "Parse"
          /\ result.errors[1].expected = "<end of line>"
          /\ result.errors[1].line = 1
          /\ result.errors[1].column = AfterChordColumn

(***************************************************************************)
(* Properties of an include command whose file does not open.              *)
(***************************************************************************)
\* the line "include m": no file m exists
MissingInclude == IncludeLine(<<"m">>)

\* what line j alone gives when it is parsed as line j of a stream
Alone(j) == ParseAll(<<src_lines[j]>>, j)

\* C16: an include line whose file does not open, once parse has reached it,
\* contributes no command and exactly one error, that of the file, and every
\* later line of the stream is parsed and contributes its commands and its errors.
C16_MissingIncludeIsolated ==
    (api = "parse" /\ Returned) =>
        \A k \in 1..Len(src_lines) :
            (src_lines[k] = MissingInclude /\ \A i \in 1..(k - 1) : Alone(i).tag = "Ok") =>
                /\ pc = "done"
                /\ Len(contrib) = Len(src_lines)
                /\ contrib[k] = Contribution(<<>>, <<MsgError(<<"m">>)>>)
                /\ \A j \in (k + 1)..Len(src_lines) :
                      /\ Alone(j).tag = "Ok"
                      /\ contrib[j] = Contribution(Alone(j).commands, Alone(j).errors)

(***************************************************************************)
(* Properties of a custom command given no argument.                       *)
(***************************************************************************)
\* C17: for a custom command that holds an argument, a line with nothing but
\* whitespace after the command word gives no command and one MissingArgument
\* error expecting "command arguments": the command is never created with an
\* empty argument.
C17_MissingArgument ==
    (Returned /\ form.kind = "command" /\ ~IsKeyword(form.word) /\ NoArgument) =>
        /\ pc = "done"
        /\ result.commands = <<>>
        /\ Len(result.errors) = 1
        /\ result.errors[1].typ = "MissingArgument"
        /\ result.errors[1].unexpected = EndOfLine
        /\ result.errors[1].expected = "command arguments"

(***************************************************************************)
(* Properties of the keys of a word.                                       *)
(***************************************************************************)
\* the Char keys of the bare characters of a word
RECURSIVE CharKeys(_)
CharKeys(w) == IF w = <<>> THEN <<>> ELSE <<Char(Head(w))>> \o CharKeys(Tail(w))

\* C18: when parse_keys succeeds on a bracketed token followed by bare
\* characters it gives one Key for each token of the word, in order: one for the
\* whole bracketed token, whatever the number of its modifier prefixes, then one
\* for each bare character after it.
C18_OneKeyPerToken ==
    (pc = "parsed" /\ keys.tag = "Ok") =>
        /\ Len(keys.val) = 1 + Len(token.suffix)
        /\ SubSeq(keys.val, 2, Len(keys.val)) = CharKeys(token.suffix)

\* the bare character may be a key: it is a letter or a digit, or a character of
\* the list
BareKey(c) == is_alphanumeric(c) \/ c \in KeyCharacters

\* the first character of the word that may not be a key
FirstOther(cs) == cs[CHOOSE i \in 1..Len(cs) : ~BareKey(cs[i]) /\ \A j \in 1..(i - 1) : BareKey(cs[j])]

\* C19: in a word of bare characters every letter, digit or character of the list
\* is parsed to one Char key of that character and parsing goes on with the next
\* character; any other character gives a Parse error expecting "key".
C19_BareCharacters ==
    pc = "scanned" =>
        IF \A i \in 1..Len(chars(text)) : BareKey(chars(text)[i])
        THEN keys = Ok(CharKeys(chars(text)))
        ELSE /\ keys.tag = "Err"
             /\ keys.err.typ = "Parse"
             /\ keys.err.expected = "key"
             /\ keys.err.unexpected = char_bytes(FirstOther(chars(text)))

\* the token is in brackets and its text after the modifier prefixes is neither
\* the name of a special key nor one letter
NoKeyToken ==
    /\ token.base \notin {sk.name : sk \in SpecialKeys}
    /\ ~(Len(token.base) = 1 /\ is_alphabetic(token.base[1]))

\* C20: for a bracketed token whose text after the modifier prefixes is neither
\* the name of a special key nor one letter, parse_keys fails with a Parse error
\* expecting "A-Z or special key" when the token has a modifier prefix and
\* "special key" when it has none.
C20_NoKeyError ==
    (pc = "parsed" /\ NoKeyToken) =>
        /\ keys.tag = "Err"
        /\ keys.err.typ = "Parse"
        /\ keys.err.expected =
              IF token.mods # <<>> THEN "A-Z or special key" ELSE "special key"

(***************************************************************************)
(* Properties of the result of a stream.                                   *)
(***************************************************************************)
\* C21: when parse has come back from a stream, the commands of the result are
\* those of the lines in the order of the lines, and the errors are in the order
\* in which they were met, those of an included file at the place of its include
\* line.
C21_EncounterOrder ==
    (api = "parse" /\ pc = "done") =>
        \E whole \in {ParseAll(src_lines, 1)} :
            /\ whole.tag = "Ok"
            /\ result.commands = whole.commands
            /\ result.errors = whole.errors

\* parse has come back from an include of g, a failing line and a set command
C21_Witness ==
    /\ pc = "done"
    /\ api = "parse"
    /\ src_lines = <<IncludeLine(<<"g">>), Set55, SetO5>>
    /\ Len(result.commands) = 3
    /\ Len(result.errors) = 2
    /\ result.errors[1].line = 1
    /\ result.errors[2].line = 2

(***************************************************************************)
(* Properties of an include line with words after the path.                *)
(***************************************************************************)
\* the line is an include line with a path and at least one word after it
IncludeWithWords ==
    /\ form.kind = "command"
    /\ form.word = Include
    /\ form.args # <<>>
    /\ trim(AfterChord) # <<>>

\* the error of the first word after the path
ExtraWordError ==
    ParseError("Parse", SliceFrom(AfterChord, 1), "<end of line>", 1, AfterChordColumn)

\* C22: an include line with words after the path gives a Parse error expecting
\* "<end of line>" at the column of the first of these words, and the file is
\* still included: its commands and errors, or the error of opening it, come
\* after that error.
C22_IncludeExtraWords ==
    (Returned /\ IncludeWithWords) =>
        /\ pc = "done"
        /\ \E file \in {file_open(Chord)} :
              IF file.tag = "Err"
              THEN /\ result.commands = <<>>
                   /\ result.errors = <<ExtraWordError, file.err>>
              ELSE \E included \in {ParseAll(lines(file.val), 1)} :
                      /\ included.tag = "Ok"
                      /\ result.commands = included.commands
                      /\ result.errors = <<ExtraWordError>> \o included.errors

\* parse has come back from an indented include of g with two words after the path
C22_Witness ==
    /\ pc = "done"
    /\ form.kind = "command"
    /\ form.word = Include
    /\ form.lead = Sp
    /\ form.gap = Sp \o Sp
    /\ form.args = <<"g", " ", " ", "x", " ", "y">>
    /\ Len(result.commands) = 2
    /\ Len(result.errors) = 2
    /\ result.errors[1].column = 14

(***************************************************************************)
(* Properties of the column of an error of parse_keys.                     *)
(***************************************************************************)
\* the error is one of parse_key or special_key
KeyError(e) ==
    e.expected \in {"A-Z or special key", "special key", "one character", "key", ">"}

\* the chords of the lines that parse_keys refuses, with the offset in the chord
\* of the text it refuses: the text after "<" and the prefixes, the end of a
\* chord with no ">", a bare colon
BadChords ==
    {[chord |-> <<"<", "C", "-", "@", ">">>, offset |-> 3],
     [chord |-> <<"<", "S", "-", "C", "-", "T", "E", ">">>, offset |-> 5],
     [chord |-> <<"<", "F", "1">>, offset |-> 3],
     [chord |-> <<"a", ":">>, offset |-> 1]}

\* the column of the first character of the chord
ChordColumn == Len(form.lead) + Len(form.word) + Len(form.gap) + 1

\* C23: the column of an error of parse_keys in a map or an unmap line is the
\* 1-based column in the line of the text that is refused: the first character
\* after "<" and the modifier prefixes, the bare character, or one past the end
\* of a chord with no ">".
C23_KeyErrorColumn ==
    (pc = "done" /\ form.kind = "command"
        /\ (IsMapWord(form.word) \/ IsUnmapWord(form.word))) =>
        \A b \in BadChords :
            (form.args # <<>> /\ Chord = b.chord) =>
                \A i \in 1..Len(result.errors) :
                    KeyError(result.errors[i]) =>
                        /\ result.errors[i].line = 1
                        /\ result.errors[i].column = ChordColumn + b.offset

(***************************************************************************)
(* Properties of a keyword followed by whitespace only.                    *)
(***************************************************************************)
\* the line is include, <mode>map or <mode>unmap followed by nothing but
\* whitespace
KeywordAlone ==
    /\ form.kind = "command"
    /\ form.word = Include \/ IsMapWord(form.word) \/ IsUnmapWord(form.word)
    /\ trim(form.gap \o form.args) = <<>>

\* C24: a line of the keyword include, <mode>map or <mode>unmap followed by
\* nothing but whitespace never aborts the parser: it gives no command and one
\* MissingArgument error.
C24_KeywordAlone ==
    (Returned /\ KeywordAlone) =>
        /\ pc = "done"
        /\ result.commands = <<>>
        /\ Len(result.errors) = 1
        /\ result.errors[1].typ = "MissingArgument"
        /\ result.errors[1].expected = "command arguments"

(***************************************************************************)
(* Properties of a parser used for several calls.                          *)
(***************************************************************************)
\* C25: the NoCommand error parse_line gives for an empty line, a line of
\* whitespace or a comment is at line 1, column 1, whatever calls the parser has
\* come back from before.
C25_NoCommandPosition ==
    (pc = "done" /\ api = "parse_line" /\ form.kind \in {"blank", "comment"}) =>
        /\ result.commands = <<>>
        /\ result.errors = <<NoCommand(1)>>

\* what a parser that was never used gives for the lines ls through the entry
\* point a
FreshResult(a, ls) ==
    LET wrapped(whole) ==
            IF whole.tag = "Panic"
            THEN Panic
            ELSE [commands |-> whole.commands,
                  errors |-> IF a = "parse_line" /\ whole.commands = <<>>
                                 /\ whole.errors = <<>>
                             THEN <<NoCommand(1)>>
                             ELSE whole.errors]
    IN  wrapped(ParseAll(ls, 1))

\* C26: what a call gives for its lines depends on the lines, their numbers and
\* the configuration only: a parser that has come back from other calls gives
\* what a parser that was never used gives.
C26_NoHistoryLeak ==
    pc = "done" => result = FreshResult(api, src_lines)

(***************************************************************************)
(* Properties of the line numbers of the errors.                           *)
(***************************************************************************)
\* the line is an include command: its errors after the first are those of the
\* included file or of opening it
IsInclude(l) == maybe_word(l).tag = "Some" /\ maybe_word(l).word = Include

\* the errors line k has of its own: all of them, or for an include line the
\* error of a word after the path
OwnErrors(k) ==
    IF ~IsInclude(src_lines[k])
    THEN contrib[k].errors
    ELSE SelectSeq(contrib[k].errors, LAMBDA e : e.expected = "<end of line>")

\* C27: every error of line k of a stream reports line k, the lines being
\* separated by "\n" or "\r\n" and the blank lines counted, also for the lines
\* after an include line; the errors of an included file report the lines of
\* that file, counted from 1.
C27_ErrorLine ==
    (api = "parse" /\ pc = "done") =>
        \A k \in 1..Len(src_lines) :
            /\ \A i \in 1..Len(OwnErrors(k)) : OwnErrors(k)[i].line = k
            /\ src_lines[k] = IncludeLine(<<"g">>) =>
                  contrib[k].errors = ParseAll(lines(Files.g), 1).errors

\* parse has come back from an include of g, a blank line and a failing line
C27_Witness ==
    /\ pc = "done"
    /\ api = "parse"
    /\ src_lines = <<IncludeLine(<<"g">>), <<>>, Set55>>
    /\ Len(result.errors) = 2
    /\ result.errors[1].line = 1
    /\ result.errors[2].line = 3

(***************************************************************************)
(* Properties of the termination of parse.                                 *)
(***************************************************************************)
\* C28: a call of parse on a finite stream whose includes form no cycle ends in
\* no other way than by coming back with a ParseResult, every line of the stream
\* having been processed.
C28_ParseReturns ==
    api = "parse" =>
        /\ pc # "panicked"
        /\ pc = "done" => Len(contrib) = Len(src_lines)

\* the includes of the files that include themselves, directly or through
\* another file
CyclicIncludes == {IncludeLine(<<"c">>), IncludeLine(<<"d">>)}

\* C29: nothing detects an include cycle or limits the depth: when a line of the
\* stream includes a file that includes itself, directly or through another
\* file, and every open succeeds, parse does not come back.
C29_CycleNeverReturns ==
    (\E k \in 1..Len(src_lines) : src_lines[k] \in CyclicIncludes) => pc # "done"

\* the nested calls of parse for a file that includes itself have reached the
\* depth the model follows
C29_Witness ==
    /\ pc = "parsing"
    /\ src_lines = <<SetO5, IncludeLine(<<"c">>), SetO5>>
    /\ Len(stack) = MaxDepth
    /\ Top.lines = lines(Files.c)

(***************************************************************************)
(* Properties of words.                                                    *)
(***************************************************************************)
\* the whitespace-delimited tokens of s in order, each with the offset at which
\* it starts, s being the input from the offset on
RECURSIVE TokensFrom(_, _)
TokensFrom(s, offset) ==
    IF s = <<>>
    THEN <<>>
    ELSE IF is_whitespace(Head(s))
    THEN TokensFrom(Tail(s), offset + 1)
    ELSE <<[index |-> offset, word |-> take_word(s)]>>
             \o TokensFrom(SliceFrom(s, Len(take_word(s))), offset + Len(take_word(s)))

\* C30: words(input, n) gives Some of the first n whitespace-delimited tokens of
\* the input in order, each with the offset at which it starts, and None iff the
\* input has fewer than n tokens, also for an input with characters of more than
\* one byte.
C30_FirstWords ==
    pc = "split" =>
        \E tokens \in {TokensFrom(words_input, 0)} :
            words_vec = IF Len(tokens) >= words_count
                        THEN [tag |-> "Some", vec |-> SubSeq(tokens, 1, words_count)]
                        ELSE None

====
